---- MODULE Spec2Model ----
(***************************************************************************)
(* Model of server.py: the MCP tools that proxy two upstream REST          *)
(* backends (Data API, EMS API).  Every tool is an async handler that      *)
(* checks the bearer token, shapes its arguments, opens an httpx           *)
(* AsyncClient with `async with`, issues one request, checks the status    *)
(* and returns the decoded response.                                       *)
(*                                                                         *)
(* An invocation is split at its suspension points (`await __aenter__`,    *)
(* `await c.get/post`, `await __aexit__`); the code between two of them    *)
(* runs as one atomic step.                                                *)
(***************************************************************************)
EXTENDS Integers, Sequences, FiniteSets, TLC

VARIABLES
    pc,        \* pc[i]: position of invocation i in its handler
    call,      \* call[i]: tool name, bearer, supplied arguments
    args,      \* args[i]: the handler's parameters after Python bound the defaults
    payload,   \* payload[i]: the local body / params / payload built before `async with`
    client,    \* client[i]: the httpx.AsyncClient of the invocation
    req,       \* req[i]: the request handed to c.get / c.post
    resp,      \* resp[i]: what the upstream call yielded
    result,    \* result[i]: what the handler returns or raises
    trace,     \* trace[i]: the steps the handler has executed, in order
    nreq,      \* nreq[i]: upstream requests issued by the invocation
    nrel,      \* nrel[i]: times the invocation's client was released
    started,   \* invocations started so far
    DATA_API_BASE,   \* module global: base address of the Data API
    EMS_API_BASE,    \* module global: base address of the EMS API
    hfn,       \* the helper being applied on its own: "_prune", "_q", or "" for none
    harg,      \* the dict the helper was called with, as it was at the call
    hd,        \* that dict object `d` as the helper leaves it
    hout       \* the dict `out` the helper returns

vars == <<pc, call, args, payload, client, req, resp, result, trace, nreq, nrel, started,
          DATA_API_BASE, EMS_API_BASE, hfn, harg, hd, hout>>

\* A helper applied on its own
helper == <<hfn, harg, hd, hout>>

\* The module globals assigned when the module is imported
conf == <<DATA_API_BASE, EMS_API_BASE>>

-----------------------------------------------------------------------------
(* Bounds of the model *)

NInv == 2           \* invocation slots that may be in flight together
MaxCalls == 3       \* invocations started in one behaviour
MaxSupplied == 2    \* arguments a caller supplies explicitly in one invocation
MaxLen == 2         \* entries of a dict handed to a helper on its own

Inv == 1..NInv

-----------------------------------------------------------------------------
(* Python values: every value carries its type tag *)

None == [t |-> "none", v |-> 0]
Missing == [t |-> "missing", v |-> 0]    \* the caller did not pass the argument
I(n) == [t |-> "int", v |-> n]
S(s) == [t |-> "str", v |-> s]
B(b) == [t |-> "bool", v |-> b]
L(q) == [t |-> "list", v |-> q]
D(q) == [t |-> "dict", v |-> q]

\* Python truthiness of a value (`if not bearer`, `if extra`)
Truthy(x) ==
    CASE x.t = "none" -> FALSE
      [] x.t = "str" -> x.v # ""
      [] x.t = "int" -> x.v # 0
      [] x.t = "bool" -> x.v
      [] x.t = "list" -> Len(x.v) > 0
      [] x.t = "dict" -> Len(x.v) > 0
      [] OTHER -> FALSE

\* A Python dict: a sequence of entries [k, v] with distinct keys, in insertion order
KV(k, x) == [k |-> k, v |-> x]
Keys(d) == {d[n].k : n \in 1..Len(d)}
HasKey(d, k) == k \in Keys(d)
Get(d, k) == (CHOOSE n \in 1..Len(d) : d[n].k = k)
ValueOf(d, k) == d[Get(d, k)].v

\* d[k] = x : replaces the value in place, or appends the key
SetItem(d, k, x) ==
    IF HasKey(d, k) THEN [n \in 1..Len(d) |-> IF d[n].k = k THEN KV(k, x) ELSE d[n]]
    ELSE Append(d, KV(k, x))

\* Faulty variant of Update: a key that is already set keeps its value (setdefault)
update_keeps_existing(d, e) == d \o SelectSeq(e, LAMBDA x : ~HasKey(d, x.k))

\* d.update(e)
RECURSIVE Update(_, _)
Update(d, e) ==
    IF e = <<>> THEN d ELSE Update(SetItem(d, Head(e).k, Head(e).v), Tail(e))

-----------------------------------------------------------------------------
(* helpers *)

\* os.environ of the process: nothing set, or both base addresses overridden
Environs ==
    {<<>>,
     <<KV("DATA_API_BASE", "http://data.local:8080"), KV("EMS_API_BASE", "http://ems.local:8080")>>}

\* os.environ.get(k, default)
environ_get(env, k, default) == IF HasKey(env, k) THEN ValueOf(env, k) ELSE default

EMS_REFERER == "https://energy.machinesensiot.com/Portfolio/Index?org_id=83&user_id=14"

\* Faulty variant of _need_token: `if bearer is None` instead of `if not bearer`
need_token_none_only(bearer) == ~(bearer.t = "none")

\* _need_token: TRUE when it returns, FALSE when it raises PermissionError
_need_token(bearer) == Truthy(bearer)

\* _client(bearer): the AsyncClient as constructed (not yet entered)
_client(bearer) ==
    [base_url |-> DATA_API_BASE,
     headers |-> <<KV("Authorization", S("Bearer " \o bearer.v))>>,
     timeout |-> 30, connect |-> 10, http2 |-> TRUE, verify |-> FALSE,
     state |-> "unopened"]

\* _client_ems(bearer)
_client_ems(bearer) ==
    [base_url |-> EMS_API_BASE,
     headers |-> <<KV("Authorization", S("Bearer " \o bearer.v)),
                   KV("Referer", S(EMS_REFERER))>>,
     timeout |-> 30, connect |-> 10, http2 |-> TRUE, verify |-> FALSE,
     state |-> "unopened"]

IsNone(x) == x.t = "none"
IsEmptyList(x) == x.t = "list" /\ Len(x.v) = 0

\* Faulty variant of _prune: `if not v: continue` drops every falsy value
prune_drops_falsy(d) == SelectSeq(d, LAMBDA e : Truthy(e.v))

\* Faulty variant of _prune: keeps empty lists, as _clean_payload does
prune_keeps_empty_lists(d) == SelectSeq(d, LAMBDA e : ~IsNone(e.v))

\* _prune(d): drops None values and empty lists, keeps the order
_prune(d) == SelectSeq(d, LAMBDA e : ~IsNone(e.v) /\ ~IsEmptyList(e.v))

\* Faulty variant of _q: `if not v: continue` drops every falsy value
q_drops_falsy(d) == SelectSeq(d, LAMBDA e : Truthy(e.v))

\* Faulty variant of _q: the `if v is None` test is missing
q_keeps_none(d) == SelectSeq(d, LAMBDA e : ~IsEmptyList(e.v))

\* _q(d): the same loop, for query parameters
_q(d) == SelectSeq(d, LAMBDA e : ~IsNone(e.v) /\ ~IsEmptyList(e.v))

\* Faulty variant of _clean_payload: also strips the values equal to the pagination defaults
clean_drops_defaults(d) ==
    SelectSeq(d, LAMBDA e : ~IsNone(e.v) /\ ~(e.k = "pageNo" /\ e.v = I(1))
                            /\ ~(e.k = "pageSize" /\ e.v = I(20)))

\* _clean_payload(d): drops None values only
_clean_payload(d) == SelectSeq(d, LAMBDA e : ~IsNone(e.v))

-----------------------------------------------------------------------------
(* The values a caller may pass for a parameter of each declared type *)

PageNos == {I(1), I(3)}                          \* pageNo: int = 1
PageSizes == {I(20), I(50)}                      \* pageSize: int = 20
Ints == {I(0), I(5)}                             \* int
OptInts == {None, I(0), I(5)}                    \* Optional[int]
Strs == {S(""), S("2024-01-01")}                 \* str
OptStrs == {None, S(""), S("x")}                 \* Optional[str]
OptLists == {None, L(<<>>), L(<<7>>)}            \* Optional[List[int]]
Lists == {L(<<>>), L(<<7>>)}                     \* List[...]
Names == {S("0"), S("HQ")}                       \* str naming a building
Bools == {B(FALSE), B(TRUE)}                     \* bool
Extras ==                                        \* extra: Optional[dict]
    {None, D(<<>>), D(<<KV("pageNo", I(9)), KV("zone", S("z"))>>),
     D(<<KV("siteIds", None)>>), D(<<KV("zone", L(<<>>))>>)}

\* One declared parameter: its name, the key it is sent under, its default
\* (Missing when the parameter is required) and the values of its type
P(name, wire, default, dom) == [name |-> name, wire |-> wire, default |-> default, dom |-> dom]

-----------------------------------------------------------------------------
(* The tools.  build: how the handler shapes its arguments before            *)
(* `async with` ("inline": a dict literal inside the call, "none": the call  *)
(* takes no arguments); send: the keyword the dict is handed to httpx under  *)
(* ("params_json": params=<the dict> together with json={}).                 *)

health ==
    [name |-> "health", backend |-> "none", method |-> "NONE", path |-> "",
     params |-> <<>>, build |-> "none", send |-> "none", extra |-> FALSE, kind |-> "json"]

get_sites ==
    [name |-> "get_sites", backend |-> "data", method |-> "POST",
     path |-> "/api/Application/GetAllSites",
     params |-> <<P("pageNo", "pageNo", I(1), PageNos), P("pageSize", "pageSize", I(20), PageSizes),
                  P("search", "search", None, OptStrs)>>,
     build |-> "prune", send |-> "json", extra |-> FALSE, kind |-> "json"]

get_building_maps ==
    [name |-> "get_building_maps", backend |-> "data", method |-> "POST",
     path |-> "/api/Application/GetBuildingMaps",
     params |-> <<>>, build |-> "none", send |-> "none", extra |-> FALSE, kind |-> "json"]

get_building_types ==
    [name |-> "get_building_types", backend |-> "data", method |-> "POST",
     path |-> "/api/Application/GetAllBuildingTypes",
     params |-> <<P("pageNo", "pageNo", I(1), PageNos), P("pageSize", "pageSize", I(20), PageSizes)>>,
     build |-> "raw", send |-> "json", extra |-> FALSE, kind |-> "json"]

get_asset_types ==
    [name |-> "get_asset_types", backend |-> "data", method |-> "POST",
     path |-> "/api/AssetManagement/GetAllAssetTypes",
     params |-> <<P("pageNo", "pageNo", I(1), PageNos), P("pageSize", "pageSize", I(20), PageSizes),
                  P("search", "search", None, OptStrs),
                  P("assetSystemIds", "assetSystemIds", None, OptLists)>>,
     build |-> "prune", send |-> "json", extra |-> FALSE, kind |-> "json"]

send_solution_data ==
    [name |-> "send_solution_data", backend |-> "data", method |-> "POST",
     path |-> "/api/Solution/SendSolutionData",
     params |-> <<P("solutionId", "solutionId", Missing, Ints),
                  P("attributes", "attributes", Missing, Lists)>>,
     build |-> "raw", send |-> "json", extra |-> FALSE, kind |-> "json"]

get_icon_image ==
    [name |-> "get_icon_image", backend |-> "data", method |-> "GET",
     path |-> "/api/Widget/GetIconImage",
     params |-> <<P("key", "key", Missing, {S("logo")})>>,
     build |-> "inline", send |-> "params", extra |-> FALSE, kind |-> "binary"]

get_energy_dashboard_data ==
    [name |-> "get_energy_dashboard_data", backend |-> "data", method |-> "POST",
     path |-> "/api/Sustainability/GetEnergyDashboardData",
     params |-> <<P("siteIds", "siteIds", None, OptLists), P("buildingIds", "buildingIds", None, OptLists),
                  P("year", "year", I(0), Ints), P("month", "month", I(0), Ints)>>,
     build |-> "prune", send |-> "json", extra |-> FALSE, kind |-> "json"]

get_overview_dashboard ==
    [name |-> "get_overview_dashboard", backend |-> "data", method |-> "POST",
     path |-> "/api/Dashboard/GetOverviewDashboard",
     params |-> <<P("pageNo", "pageNo", I(1), PageNos), P("pageSize", "pageSize", I(20), PageSizes),
                  P("search", "search", None, OptStrs),
                  P("siteIds", "siteIds", None, OptLists), P("buildingIds", "buildingIds", None, OptLists),
                  P("floorIds", "floorIds", None, OptLists),
                  P("applicationIds", "applicationIds", None, OptLists),
                  P("assetIds", "assetIds", None, OptLists),
                  P("startDate", "startDate", None, OptStrs), P("endDate", "endDate", None, OptStrs)>>,
     build |-> "clean", send |-> "json", extra |-> TRUE, kind |-> "json"]

ems_portfolio_get_sites ==
    [name |-> "ems_portfolio_get_sites", backend |-> "ems", method |-> "GET",
     path |-> "/Portfolio/GetSites",
     params |-> <<>>, build |-> "none", send |-> "none", extra |-> FALSE, kind |-> "json"]

ems_portfolio_get_electricity_consumption ==
    [name |-> "ems_portfolio_get_electricity_consumption", backend |-> "ems", method |-> "GET",
     path |-> "/Portfolio/GetElectricityConsumption",
     params |-> <<P("startDate", "startDate", Missing, Strs), P("endDate", "endDate", Missing, Strs),
                  P("siteId", "siteId", None, OptInts), P("buildingId", "buildingId", None, OptInts)>>,
     build |-> "q", send |-> "params", extra |-> FALSE, kind |-> "json"]

ems_water_usage_get_water_stats ==
    [name |-> "ems_water_usage_get_water_stats", backend |-> "ems", method |-> "GET",
     path |-> "/WaterUsageAnalysis/GetWaterStats",
     params |-> <<P("siteId", "siteId", I(0), Ints), P("buildingId", "buildingId", I(0), Ints),
                  P("startDate", "startDate", S(""), Strs), P("endDate", "endDate", S(""), Strs)>>,
     build |-> "q", send |-> "params", extra |-> FALSE, kind |-> "json"]

ems_ecm_get_high_apparent_or_active_power ==
    [name |-> "ems_ecm_get_high_apparent_or_active_power", backend |-> "ems", method |-> "GET",
     path |-> "/EnergyCentricMaintenance/GetHighApparentPowerorActivePower",
     params |-> <<P("buildingName", "buildingName", Missing, Names),
                  P("startDate", "startDate", Missing, Strs), P("endDate", "endDate", Missing, Strs),
                  P("meterId", "meterid", None, OptInts)>>,
     build |-> "q", send |-> "params", extra |-> FALSE, kind |-> "json"]

ems_ecm_load_imbalance_forecasting ==
    [name |-> "ems_ecm_load_imbalance_forecasting", backend |-> "ems", method |-> "GET",
     path |-> "/EnergyCentricMaintenance/LoadImbalanceForecasting",
     params |-> <<P("building", "building", Missing, Names),
                  P("startDate", "startDate", Missing, Strs), P("endDate", "endDate", Missing, Strs),
                  P("meterId", "meterId", I(0), Ints)>>,
     build |-> "q", send |-> "params", extra |-> FALSE, kind |-> "json"]

ems_ecm_get_thermal_loss_detection ==
    [name |-> "ems_ecm_get_thermal_loss_detection", backend |-> "ems", method |-> "GET",
     path |-> "/EnergyCentricMaintenance/GetThermalLossDetection",
     params |-> <<P("startDate", "startDate", Missing, Strs), P("endDate", "endDate", Missing, Strs),
                  P("building", "building", S("0"), Names),
                  P("meterId", "meterId", I(0), Ints)>>,
     build |-> "q", send |-> "params", extra |-> FALSE, kind |-> "json"]

get_unit_price_by_location ==
    [name |-> "get_unit_price_by_location", backend |-> "data", method |-> "POST",
     path |-> "/api/UnitPrice/GetUnitPriceByLocation",
     params |-> <<P("locationId", "locationId", Missing, Ints),
                  P("utilityType", "utilityType", Missing, Ints)>>,
     build |-> "inline", send |-> "params_json", extra |-> FALSE, kind |-> "json"]

ems_benchmarking_get_site_level_carbon_deviation_analysis ==
    [name |-> "ems_benchmarking_get_site_level_carbon_deviation_analysis", backend |-> "ems",
     method |-> "GET", path |-> "/BenchMarking/GetSiteLevelCarbonDeviationAnalysis",
     params |-> <<P("sites", "sites", None, OptStrs),
                  P("startDate", "startDate", Missing, Strs), P("endDate", "endDate", Missing, Strs)>>,
     build |-> "q", send |-> "params", extra |-> FALSE, kind |-> "json"]

ems_benchmarking_get_site_level_energy_and_carbon_intensity ==
    [name |-> "ems_benchmarking_get_site_level_energy_and_carbon_intensity", backend |-> "ems",
     method |-> "POST", path |-> "/BenchMarking/GetSiteLevelEnergyAndCarbonIntensity",
     params |-> <<P("sites", "sites", None, OptStrs),
                  P("startDate", "startDate", Missing, Strs), P("endDate", "endDate", Missing, Strs)>>,
     build |-> "q", send |-> "data", extra |-> FALSE, kind |-> "json"]

ems_portfolio_get_water_consumption ==
    [name |-> "ems_portfolio_get_water_consumption", backend |-> "ems", method |-> "GET",
     path |-> "/Portfolio/GetWaterConsumption",
     params |-> <<P("startDate", "startDate", Missing, Strs), P("endDate", "endDate", Missing, Strs),
                  P("siteId", "siteId", I(0), Ints), P("buildingId", "buildingId", I(0), Ints),
                  P("isGallon", "isGallon", B(FALSE), Bools)>>,
     build |-> "q", send |-> "params", extra |-> FALSE, kind |-> "json"]

\* The catalog: the tools registered with @mcp.tool
Catalog ==
    {health, get_sites, get_building_maps, get_building_types, get_asset_types,
     send_solution_data, get_icon_image, get_energy_dashboard_data, get_overview_dashboard,
     ems_portfolio_get_sites, ems_portfolio_get_electricity_consumption,
     ems_water_usage_get_water_stats, ems_ecm_get_high_apparent_or_active_power,
     ems_ecm_load_imbalance_forecasting, ems_ecm_get_thermal_loss_detection,
     get_unit_price_by_location, ems_benchmarking_get_site_level_carbon_deviation_analysis,
     ems_benchmarking_get_site_level_energy_and_carbon_intensity,
     ems_portfolio_get_water_consumption}

Tool(name) == CHOOSE d \in Catalog : d.name = name
CatalogNames == {d.name : d \in Catalog}

\* Names a caller may ask for that no tool is registered under
UnknownNames == {"get_site", "delete_site"}

ParamNames(d) == {d.params[n].name : n \in 1..Len(d.params)}
Param(d, name) == d.params[CHOOSE n \in 1..Len(d.params) : d.params[n].name = name]
RequiredParams(d) == {p \in ParamNames(d) : Param(d, p).default = Missing}
OptionalParams(d) == (ParamNames(d) \ RequiredParams(d)) \cup (IF d.extra THEN {"extra"} ELSE {})
DomOf(d, p) == IF p = "extra" THEN Extras ELSE Param(d, p).dom
DefaultOf(d, p) == IF p = "extra" THEN None ELSE Param(d, p).default

\* The keyword arguments a caller may pass: every required parameter and at
\* most k of the optional ones, each with a value of its declared type
RECURSIVE Assignments(_, _)
Assignments(d, ps) ==
    IF ps = {} THEN {<<>>}
    ELSE LET p == CHOOSE x \in ps : TRUE
         IN  {(p :> x) @@ f : x \in DomOf(d, p), f \in Assignments(d, ps \ {p})}

Inputs(d, k) ==
    UNION {Assignments(d, RequiredParams(d) \cup O) :
             O \in {X \in SUBSET OptionalParams(d) : Cardinality(X) <= k}}

\* Python binds each parameter to the passed value or to its declared default
Bind(d, supplied) ==
    [p \in ParamNames(d) \cup (IF d.extra THEN {"extra"} ELSE {}) |->
        IF p \in DOMAIN supplied THEN supplied[p] ELSE DefaultOf(d, p)]


-----------------------------------------------------------------------------
(* What the upstream may answer *)

Statuses == {200, 299, 300, 404, 500}

\* Response bodies: JSON texts, a text that is no JSON, and raw image bytes
JsonTexts ==
    {"{\"ok\": true}", "[]", "null", "7", "\"s\"", "{\"b\": 1, \"a\": [2, null]}"}
Texts == JsonTexts \cup {"<html>oops</html>", ""}
Bytes(q) == [t |-> "bytes", v |-> q]
Images ==
    {Bytes(<<>>), Bytes(<<0>>), Bytes(<<137>>), Bytes(<<137, 80>>), Bytes(<<91, 93>>),
     Bytes(<<255, 255, 255>>), Bytes(<<137, 80, 78, 71>>)}

HttpResponse(status, ctype, content) ==
    [kind |-> "http", status |-> status, ctype |-> ctype, content |-> content]
TransportFailure == [kind |-> "transport", status |-> 0, ctype |-> None, content |-> S("")]
NoResp == [kind |-> "none", status |-> 0, ctype |-> None, content |-> S("")]

\* Everything the upstream call of tool d may yield
Upstream(d) ==
    {TransportFailure} \cup
    (IF d.kind = "binary"
     THEN {HttpResponse(st, ct, c) : st \in Statuses, ct \in {None, S("image/png")}, c \in Images}
     ELSE {HttpResponse(st, S("application/json"), S(c)) : st \in Statuses, c \in Texts})

AllUpstream == UNION {Upstream(d) : d \in {get_sites, get_icon_image}}

\* Faulty variant of is_success: only 4xx and 5xx count as failures
is_not_error(status) == status < 400

\* httpx Response.is_success, which raise_for_status() tests
is_success(status) == 200 <= status /\ status <= 299

\* r.json(): the parsed value, or no value when the text is not JSON
json_ok(content) == content.t = "str" /\ content.v \in JsonTexts
json_value(content) ==
    CASE content.v = "{\"ok\": true}" -> D(<<KV("ok", B(TRUE))>>)
      [] content.v = "[]" -> L(<<>>)
      [] content.v = "7" -> I(7)
      [] content.v = "\"s\"" -> S("s")
      [] content.v = "{\"b\": 1, \"a\": [2, null]}" ->
            D(<<KV("b", I(1)), KV("a", L(<<I(2), None>>))>>)
      [] OTHER -> None

\* The alphabet of base64.b64encode
B64Alphabet ==
    <<"A","B","C","D","E","F","G","H","I","J","K","L","M","N","O","P",
      "Q","R","S","T","U","V","W","X","Y","Z","a","b","c","d","e","f",
      "g","h","i","j","k","l","m","n","o","p","q","r","s","t","u","v",
      "w","x","y","z","0","1","2","3","4","5","6","7","8","9","+","/">>

\* Faulty variant of B64Char: the URL-safe alphabet of base64.urlsafe_b64encode
B64CharUrlSafe(n) == IF n = 62 THEN "-" ELSE IF n = 63 THEN "_" ELSE B64Alphabet[n + 1]

\* base64.b64encode(bytes).decode("utf-8"), as the sequence of its characters
B64Char(n) == B64Alphabet[n + 1]
RECURSIVE b64encode(_)
b64encode(bs) ==
    IF Len(bs) = 0 THEN <<>>
    ELSE IF Len(bs) = 1 THEN
        <<B64Char(bs[1] \div 4), B64Char((bs[1] % 4) * 16), "=", "=">>
    ELSE IF Len(bs) = 2 THEN
        <<B64Char(bs[1] \div 4), B64Char((bs[1] % 4) * 16 + bs[2] \div 16),
          B64Char((bs[2] % 16) * 4), "=">>
    ELSE
        <<B64Char(bs[1] \div 4), B64Char((bs[1] % 4) * 16 + bs[2] \div 16),
          B64Char((bs[2] % 16) * 4 + bs[3] \div 64), B64Char(bs[3] % 64)>>
        \o b64encode(SubSeq(bs, 4, Len(bs)))

-----------------------------------------------------------------------------
(* Outcomes of a handler *)

NoResult == [kind |-> "none", error |-> "", status |-> 0, value |-> None]
Return(x) == [kind |-> "return", error |-> "", status |-> 0, value |-> x]
Raise(e, status) == [kind |-> "raise", error |-> e, status |-> status, value |-> None]
Cancelled == [kind |-> "cancelled", error |-> "CancelledError", status |-> 0, value |-> None]

\* An optional dict: a keyword argument of c.get / c.post that may be left out
NoDict == [present |-> FALSE, d |-> <<>>]
Some(d) == [present |-> TRUE, d |-> d]

NoCall == [op |-> "", bearer |-> None, supplied |-> <<>>]
NoClient ==
    [base_url |-> "", headers |-> <<>>, timeout |-> 0, connect |-> 0,
     http2 |-> FALSE, verify |-> FALSE, state |-> "none"]
NoReq ==
    [sent |-> FALSE, method |-> "", path |-> "", base_url |-> "", headers |-> <<>>,
     params |-> NoDict, json |-> NoDict, data |-> NoDict]

-----------------------------------------------------------------------------
(* The body of a handler *)

\* Faulty variant of BuildDict: every key is the name of the Python parameter
BuildDictByName(d, a) == [n \in 1..Len(d.params) |-> KV(d.params[n].name, a[d.params[n].name])]

\* The dict literal of the handler: one entry per parameter, in source order
BuildDict(d, a) == [n \in 1..Len(d.params) |-> KV(d.params[n].wire, a[d.params[n].name])]

\* The handler assigns body / params / payload before `async with`
HasLocal(d) == d.build \in {"prune", "q", "clean", "raw"}

\* Faulty variant of Shape: the extension is merged first and cleaned with the rest
ShapeNormalizesExtension(d, a) ==
    CASE d.build = "prune" -> _prune(BuildDict(d, a))
      [] d.build = "q" -> _q(BuildDict(d, a))
      [] d.build = "clean" ->
            IF d.extra /\ Truthy(a["extra"])
            THEN _clean_payload(Update(BuildDict(d, a), a["extra"].v))
            ELSE _clean_payload(BuildDict(d, a))
      [] OTHER -> BuildDict(d, a)

\* The value of that local, with `if extra: payload.update(extra)` applied
Shape(d, a) ==
    CASE d.build = "prune" -> _prune(BuildDict(d, a))
      [] d.build = "q" -> _q(BuildDict(d, a))
      [] d.build = "clean" ->
            IF d.extra /\ Truthy(a["extra"])
            THEN Update(_clean_payload(BuildDict(d, a)), a["extra"].v)
            ELSE _clean_payload(BuildDict(d, a))
      [] OTHER -> BuildDict(d, a)

\* Faulty variant of NewClient: every tool gets the Data API client
NewClientDataOnly(d, bearer) == _client(bearer)

\* Faulty variant of NewClient: the image download gets a longer timeout of its own
NewClientPerTool(d, bearer) ==
    IF d.kind = "binary" THEN [_client(bearer) EXCEPT !.timeout = 60]
    ELSE IF d.backend = "ems" THEN _client_ems(bearer) ELSE _client(bearer)

\* `_client(bearer)` or `_client_ems(bearer)`, by the backend of the tool
NewClient(d, bearer) == IF d.backend = "ems" THEN _client_ems(bearer) ELSE _client(bearer)

\* Faulty variant of BoundClient: one client shared by the invocations in flight
PooledClient(i) == client[CHOOSE j \in Inv : client[j].state # "none"]

\* The client `async with ... as c` binds for invocation i (after __aenter__)
BoundClient(i) == [client[i] EXCEPT !.state = "open"]

\* Faulty variant of Request: every POST carries its arguments in the JSON body
RequestPostJson(d, c, dict) ==
    [sent |-> TRUE, method |-> d.method, path |-> d.path,
     base_url |-> c.base_url, headers |-> c.headers,
     params |-> IF d.send = "params" THEN Some(dict) ELSE NoDict,
     json |-> IF d.send \in {"json", "params_json"} THEN Some(dict) ELSE NoDict,
     data |-> IF d.send = "data" THEN Some(dict) ELSE NoDict]

\* Faulty variant of Request: every EMS call is a GET with a query string
RequestEmsGet(d, c, dict) ==
    [sent |-> TRUE, method |-> IF d.backend = "ems" THEN "GET" ELSE d.method, path |-> d.path,
     base_url |-> c.base_url, headers |-> c.headers,
     params |-> IF d.send \in {"params", "params_json"} \/ (d.backend = "ems" /\ d.send = "data")
                THEN Some(dict) ELSE NoDict,
     json |-> IF d.send = "json" THEN Some(dict)
              ELSE IF d.send = "params_json" THEN Some(<<>>) ELSE NoDict,
     data |-> IF d.send = "data" /\ d.backend # "ems" THEN Some(dict) ELSE NoDict]

\* c.get(path, params=...) / c.post(path, json=...) / c.post(path, data=...) /
\* c.post(path, params=..., json={})
Request(d, c, dict) ==
    [sent |-> TRUE, method |-> d.method, path |-> d.path,
     base_url |-> c.base_url, headers |-> c.headers,
     params |-> IF d.send \in {"params", "params_json"} THEN Some(dict) ELSE NoDict,
     json |-> IF d.send = "json" THEN Some(dict)
              ELSE IF d.send = "params_json" THEN Some(<<>>) ELSE NoDict,
     data |-> IF d.send = "data" THEN Some(dict) ELSE NoDict]

\* Faulty variant of Transform: the parsed body is wrapped in an envelope
TransformEnvelope(d, r) ==
    IF d.kind = "binary"
    THEN Return(D(<<KV("content_type", IF IsNone(r.ctype) THEN S("application/octet-stream") ELSE r.ctype),
                    KV("base64", [t |-> "chars", v |-> b64encode(r.content.v)])>>))
    ELSE IF json_ok(r.content) THEN Return(D(<<KV("data", json_value(r.content))>>))
    ELSE Raise("DecodeError", 0)

\* Faulty variant of Transform: a body that is no JSON is returned as text
TransformLenient(d, r) ==
    IF d.kind = "binary"
    THEN Return(D(<<KV("content_type", IF IsNone(r.ctype) THEN S("application/octet-stream") ELSE r.ctype),
                    KV("base64", [t |-> "chars", v |-> b64encode(r.content.v)])>>))
    ELSE IF json_ok(r.content) THEN Return(json_value(r.content))
    ELSE Return(r.content)

\* The lines after the upstream call: raise_for_status(), then the return value
Transform(d, r) ==
    IF d.kind = "binary"
    THEN Return(D(<<KV("content_type", IF IsNone(r.ctype) THEN S("application/octet-stream") ELSE r.ctype),
                    KV("base64", [t |-> "chars", v |-> b64encode(r.content.v)])>>))
    ELSE IF json_ok(r.content) THEN Return(json_value(r.content))
    ELSE Raise("DecodeError", 0)

\* Faulty variant of Settle: `data = r.json()` comes before r.raise_for_status()
SettleDecodeFirst(d, r) ==
    IF r.kind = "transport" THEN Raise("TransportError", 0)
    ELSE IF d.kind = "json" /\ ~json_ok(r.content) THEN Raise("DecodeError", 0)
    ELSE IF ~is_success(r.status) THEN Raise("HTTPStatusError", r.status)
    ELSE Transform(d, r)

\* Faulty variant of Settle: a failed upstream call yields an empty result
SettleWithFallback(d, r) ==
    IF r.kind = "transport" THEN Return(L(<<>>))
    ELSE IF ~is_success(r.status) THEN Raise("HTTPStatusError", r.status)
    ELSE Transform(d, r)

\* raise_for_status() and the return value, or the error of the upstream call
Settle(d, r) ==
    IF r.kind = "transport" THEN Raise("TransportError", 0)
    ELSE IF ~is_success(r.status) THEN Raise("HTTPStatusError", r.status)
    ELSE Transform(d, r)

\* The steps that the lines after the upstream call execute
StepsAfter(r) ==
    IF r.kind = "transport" THEN <<>>
    ELSE IF ~is_success(r.status) THEN <<"status">>
    ELSE <<"status", "transform">>

-----------------------------------------------------------------------------
(* Actions *)

Init ==
    /\ \E env \in Environs :
          /\ DATA_API_BASE = environ_get(env, "DATA_API_BASE", "https://api.pre.iot.machinesensiot.com")
          /\ EMS_API_BASE = environ_get(env, "EMS_API_BASE", "https://energy.machinesensiot.com")
    /\ pc = [i \in Inv |-> "idle"]
    /\ call = [i \in Inv |-> NoCall]
    /\ args = [i \in Inv |-> <<>>]
    /\ payload = [i \in Inv |-> NoDict]
    /\ client = [i \in Inv |-> NoClient]
    /\ req = [i \in Inv |-> NoReq]
    /\ resp = [i \in Inv |-> NoResp]
    /\ result = [i \in Inv |-> NoResult]
    /\ trace = [i \in Inv |-> <<>>]
    /\ nreq = [i \in Inv |-> 0]
    /\ nrel = [i \in Inv |-> 0]
    /\ started = 0
    /\ hfn = "" /\ harg = <<>> /\ hd = <<>> /\ hout = <<>>

\* Faulty variant of Unknown: the bearer is checked before the name is looked up
UnknownAfterGate(i, name, b) ==
    /\ pc[i] = "idle"
    /\ started < MaxCalls
    /\ name \notin CatalogNames
    /\ started' = started + 1
    /\ call' = [call EXCEPT ![i] = [op |-> name, bearer |-> b, supplied |-> <<>>]]
    /\ result' = [result EXCEPT ![i] =
                    IF ~_need_token(b) THEN Raise("PermissionError", 0)
                    ELSE Raise("UnknownOperationError", 0)]
    /\ trace' = [trace EXCEPT ![i] = <<"gate">>]
    /\ pc' = [pc EXCEPT ![i] = "done"]
    /\ UNCHANGED <<args, payload, client, req, resp, nreq, nrel>>
    /\ UNCHANGED conf
    /\ UNCHANGED helper

\* The caller asks for a name that is not in the catalog: no handler is
\* selected, the call fails with the unknown-operation error
Unknown(i, name, b) ==
    /\ pc[i] = "idle"
    /\ started < MaxCalls
    /\ name \notin CatalogNames
    /\ started' = started + 1
    /\ call' = [call EXCEPT ![i] = [op |-> name, bearer |-> b, supplied |-> <<>>]]
    /\ result' = [result EXCEPT ![i] = Raise("UnknownOperationError", 0)]
    /\ pc' = [pc EXCEPT ![i] = "done"]
    /\ UNCHANGED <<args, payload, client, req, resp, trace, nreq, nrel>>
    /\ UNCHANGED conf
    /\ UNCHANGED helper

\* Faulty variant of Health: health checks the bearer like every other tool
HealthGated(i) ==
    /\ pc[i] = "idle"
    /\ started < MaxCalls
    /\ started' = started + 1
    /\ call' = [call EXCEPT ![i] = [op |-> "health", bearer |-> None, supplied |-> <<>>]]
    /\ result' = [result EXCEPT ![i] = Raise("PermissionError", 0)]
    /\ pc' = [pc EXCEPT ![i] = "done"]
    /\ UNCHANGED <<args, payload, client, req, resp, trace, nreq, nrel>>
    /\ UNCHANGED conf
    /\ UNCHANGED helper

\* The caller invokes health(): it returns at once
Health(i) ==
    /\ pc[i] = "idle"
    /\ started < MaxCalls
    /\ started' = started + 1
    /\ call' = [call EXCEPT ![i] = [op |-> "health", bearer |-> None, supplied |-> <<>>]]
    /\ result' = [result EXCEPT ![i] =
                    Return(D(<<KV("ok", B(TRUE)), KV("api_base", S(DATA_API_BASE))>>))]
    /\ pc' = [pc EXCEPT ![i] = "done"]
    /\ UNCHANGED <<args, payload, client, req, resp, trace, nreq, nrel>>
    /\ UNCHANGED conf
    /\ UNCHANGED helper

\* The caller invokes tool d with bearer b and keyword arguments s; the handler
\* runs to its first suspension point, `await __aenter__()`, or raises
Start(i, d, b, s) ==
    /\ pc[i] = "idle"
    /\ started < MaxCalls
    /\ started' = started + 1
    /\ call' = [call EXCEPT ![i] = [op |-> d.name, bearer |-> b, supplied |-> s]]
    /\ args' = [args EXCEPT ![i] = Bind(d, s)]
    /\ IF ~_need_token(b)
       THEN /\ result' = [result EXCEPT ![i] = Raise("PermissionError", 0)]
            /\ trace' = [trace EXCEPT ![i] = <<"gate">>]
            /\ pc' = [pc EXCEPT ![i] = "done"]
            /\ UNCHANGED <<payload, client>>
       ELSE /\ payload' = [payload EXCEPT ![i] =
                             IF HasLocal(d) THEN Some(Shape(d, Bind(d, s))) ELSE NoDict]
            /\ client' = [client EXCEPT ![i] = NewClient(d, b)]
            /\ trace' = [trace EXCEPT ![i] =
                           IF HasLocal(d) THEN <<"gate", "normalize">> ELSE <<"gate">>]
            /\ pc' = [pc EXCEPT ![i] = "opening"]
            /\ UNCHANGED result
    /\ UNCHANGED <<req, resp, nreq, nrel>>
    /\ UNCHANGED conf
    /\ UNCHANGED helper

\* Faulty variant of Enter: one upstream call at a time, the others wait their turn
EnterThrottled(i) ==
    /\ pc[i] = "opening"
    /\ \A j \in Inv \ {i} : pc[j] # "awaiting"
    /\ LET d == Tool(call[i].op)
           c == BoundClient(i)
           dict == IF HasLocal(d) THEN payload[i].d
                   ELSE IF d.build = "inline" THEN BuildDict(d, args[i]) ELSE <<>>
       IN  /\ client' = [client EXCEPT ![i].state = "open"]
           /\ req' = [req EXCEPT ![i] = Request(d, c, dict)]
    /\ nreq' = [nreq EXCEPT ![i] = @ + 1]
    /\ trace' = [trace EXCEPT ![i] = @ \o <<"acquire", "request">>]
    /\ pc' = [pc EXCEPT ![i] = "awaiting"]
    /\ UNCHANGED <<call, args, payload, resp, result, nrel, started>>
    /\ UNCHANGED conf
    /\ UNCHANGED helper

\* __aenter__ returns: the client is open, the handler calls c.get / c.post
\* and suspends on the upstream call
Enter(i) ==
    /\ pc[i] = "opening"
    /\ LET d == Tool(call[i].op)
           c == BoundClient(i)
           dict == IF HasLocal(d) THEN payload[i].d
                   ELSE IF d.build = "inline" THEN BuildDict(d, args[i]) ELSE <<>>
       IN  /\ client' = [client EXCEPT ![i].state = "open"]
           /\ req' = [req EXCEPT ![i] = Request(d, c, dict)]
    /\ nreq' = [nreq EXCEPT ![i] = @ + 1]
    /\ trace' = [trace EXCEPT ![i] = @ \o <<"acquire", "request">>]
    /\ pc' = [pc EXCEPT ![i] = "awaiting"]
    /\ UNCHANGED <<call, args, payload, resp, result, nrel, started>>
    /\ UNCHANGED conf
    /\ UNCHANGED helper

\* Faulty variant of Respond: after a transport failure the handler starts over with a
\* fresh client
RespondReenters(i, r) ==
    /\ pc[i] = "awaiting"
    /\ r \in Upstream(Tool(call[i].op))
    /\ IF r.kind = "transport"
       THEN /\ client' = [client EXCEPT ![i].state = "unopened"]
            /\ req' = [req EXCEPT ![i] = NoReq]
            /\ nreq' = [nreq EXCEPT ![i] = 0]
            /\ trace' = [trace EXCEPT ![i] = SubSeq(@, 1, Len(@) - 2)]
            /\ pc' = [pc EXCEPT ![i] = "opening"]
            /\ UNCHANGED <<resp, result>>
       ELSE /\ resp' = [resp EXCEPT ![i] = r]
            /\ result' = [result EXCEPT ![i] = Settle(Tool(call[i].op), r)]
            /\ trace' = [trace EXCEPT ![i] = @ \o StepsAfter(r)]
            /\ pc' = [pc EXCEPT ![i] = "closing"]
            /\ UNCHANGED <<client, req, nreq>>
    /\ UNCHANGED <<call, args, payload, nrel, started>>
    /\ UNCHANGED conf
    /\ UNCHANGED helper

\* Faulty variant of Respond: a failed call is sent once more before giving up
RespondRetry(i, r) ==
    /\ pc[i] = "awaiting"
    /\ r \in Upstream(Tool(call[i].op))
    /\ IF Settle(Tool(call[i].op), r).kind = "raise" /\ nreq[i] < 2
       THEN /\ nreq' = [nreq EXCEPT ![i] = @ + 1]
            /\ UNCHANGED <<resp, result, trace, pc>>
       ELSE /\ resp' = [resp EXCEPT ![i] = r]
            /\ result' = [result EXCEPT ![i] = Settle(Tool(call[i].op), r)]
            /\ trace' = [trace EXCEPT ![i] = @ \o StepsAfter(r)]
            /\ pc' = [pc EXCEPT ![i] = "closing"]
            /\ UNCHANGED nreq
    /\ UNCHANGED <<call, args, payload, client, req, nrel, started>>
    /\ UNCHANGED conf
    /\ UNCHANGED helper

\* Faulty variant of Respond: the status check and the return are outside the with-block,
\* so the client is closed before the response is looked at
RespondAfterRelease(i, r) ==
    /\ pc[i] = "awaiting"
    /\ r \in Upstream(Tool(call[i].op))
    /\ resp' = [resp EXCEPT ![i] = r]
    /\ client' = [client EXCEPT ![i].state = "closed"]
    /\ nrel' = [nrel EXCEPT ![i] = @ + 1]
    /\ result' = [result EXCEPT ![i] = Settle(Tool(call[i].op), r)]
    /\ trace' = [trace EXCEPT ![i] = @ \o <<"release">> \o StepsAfter(r)]
    /\ pc' = [pc EXCEPT ![i] = "done"]
    /\ UNCHANGED <<call, args, payload, req, nreq, started>>
    /\ UNCHANGED conf
    /\ UNCHANGED helper

\* The upstream call yields r: the handler checks the status and computes its
\* return value or raises, and `async with` awaits __aexit__
Respond(i, r) ==
    /\ pc[i] = "awaiting"
    /\ r \in Upstream(Tool(call[i].op))
    /\ resp' = [resp EXCEPT ![i] = r]
    /\ result' = [result EXCEPT ![i] = Settle(Tool(call[i].op), r)]
    /\ trace' = [trace EXCEPT ![i] = @ \o StepsAfter(r)]
    /\ pc' = [pc EXCEPT ![i] = "closing"]
    /\ UNCHANGED <<call, args, payload, client, req, nreq, nrel, started>>
    /\ UNCHANGED conf
    /\ UNCHANGED helper

\* Faulty variant of Exit: the client is kept open for the next call of the caller
ExitKeepAlive(i) ==
    /\ pc[i] = "closing"
    /\ pc' = [pc EXCEPT ![i] = "done"]
    /\ UNCHANGED <<call, args, payload, client, req, resp, result, trace, nreq, nrel, started>>
    /\ UNCHANGED conf
    /\ UNCHANGED helper

\* Faulty variant of Exit: the client is closed by a call after the return value was
\* computed, which an exception skips
ExitOnSuccessOnly(i) ==
    /\ pc[i] = "closing"
    /\ IF result[i].kind = "return"
       THEN /\ client' = [client EXCEPT ![i].state = "closed"]
            /\ nrel' = [nrel EXCEPT ![i] = @ + 1]
            /\ trace' = [trace EXCEPT ![i] = @ \o <<"release">>]
       ELSE UNCHANGED <<client, nrel, trace>>
    /\ pc' = [pc EXCEPT ![i] = "done"]
    /\ UNCHANGED <<call, args, payload, req, resp, result, nreq, started>>
    /\ UNCHANGED conf
    /\ UNCHANGED helper

\* __aexit__ returns: the client is closed and the outcome reaches the caller
Exit(i) ==
    /\ pc[i] = "closing"
    /\ client' = [client EXCEPT ![i].state = "closed"]
    /\ nrel' = [nrel EXCEPT ![i] = @ + 1]
    /\ trace' = [trace EXCEPT ![i] = @ \o <<"release">>]
    /\ pc' = [pc EXCEPT ![i] = "done"]
    /\ UNCHANGED <<call, args, payload, req, resp, result, nreq, started>>
    /\ UNCHANGED conf
    /\ UNCHANGED helper

\* Faulty variant of Cancel: no `async with`, so CancelledError leaves the handler at once
CancelNoCleanup(i) ==
    /\ pc[i] \in {"opening", "awaiting", "closing"}
    /\ result' = [result EXCEPT ![i] = Cancelled]
    /\ pc' = [pc EXCEPT ![i] = "done"]
    /\ UNCHANGED <<call, args, payload, client, req, resp, trace, nreq, nrel, started>>
    /\ UNCHANGED conf
    /\ UNCHANGED helper

\* The calling protocol cancels the invocation at the await it is suspended on
Cancel(i) ==
    /\ pc[i] \in {"opening", "awaiting", "closing"}
    /\ result' = [result EXCEPT ![i] = Cancelled]
    /\ CASE pc[i] = "opening" ->
              \* CancelledError leaves __aenter__: the with-body never runs
              /\ pc' = [pc EXCEPT ![i] = "done"]
              /\ UNCHANGED <<client, nrel, trace>>
         [] pc[i] = "awaiting" ->
              \* CancelledError leaves the with-body: __aexit__ is awaited
              /\ pc' = [pc EXCEPT ![i] = "closing"]
              /\ UNCHANGED <<client, nrel, trace>>
         [] OTHER ->
              \* CancelledError leaves __aexit__, which closed the client first
              /\ client' = [client EXCEPT ![i].state = "closed"]
              /\ nrel' = [nrel EXCEPT ![i] = @ + 1]
              /\ trace' = [trace EXCEPT ![i] = @ \o <<"release">>]
              /\ pc' = [pc EXCEPT ![i] = "done"]
    /\ UNCHANGED <<call, args, payload, req, resp, nreq, started>>
    /\ UNCHANGED conf
    /\ UNCHANGED helper

\* Faulty variant of Finish: the call and its bearer stay in a module-level record
FinishKeepsCall(i) ==
    /\ pc[i] = "done"
    /\ pc' = [pc EXCEPT ![i] = "idle"]
    /\ args' = [args EXCEPT ![i] = <<>>]
    /\ payload' = [payload EXCEPT ![i] = NoDict]
    /\ client' = [client EXCEPT ![i] = NoClient]
    /\ req' = [req EXCEPT ![i] = NoReq]
    /\ resp' = [resp EXCEPT ![i] = NoResp]
    /\ result' = [result EXCEPT ![i] = NoResult]
    /\ trace' = [trace EXCEPT ![i] = <<>>]
    /\ nreq' = [nreq EXCEPT ![i] = 0]
    /\ nrel' = [nrel EXCEPT ![i] = 0]
    /\ UNCHANGED <<call, started>>
    /\ UNCHANGED conf
    /\ UNCHANGED helper

\* The caller has the outcome; the frame of the invocation is gone
Finish(i) ==
    /\ pc[i] = "done"
    /\ pc' = [pc EXCEPT ![i] = "idle"]
    /\ call' = [call EXCEPT ![i] = NoCall]
    /\ args' = [args EXCEPT ![i] = <<>>]
    /\ payload' = [payload EXCEPT ![i] = NoDict]
    /\ client' = [client EXCEPT ![i] = NoClient]
    /\ req' = [req EXCEPT ![i] = NoReq]
    /\ resp' = [resp EXCEPT ![i] = NoResp]
    /\ result' = [result EXCEPT ![i] = NoResult]
    /\ trace' = [trace EXCEPT ![i] = <<>>]
    /\ nreq' = [nreq EXCEPT ![i] = 0]
    /\ nrel' = [nrel EXCEPT ![i] = 0]
    /\ UNCHANGED started
    /\ UNCHANGED conf
    /\ UNCHANGED helper

-----------------------------------------------------------------------------------------------------------------------------------------------------
(* Concurrent invocations: NInv callers, each tool called with the arguments *)
(* the caller must pass and the declared defaults for the rest               *)

Bearers == {None, S(""), S("tokA"), S("tokB")}
ConcurrentTools == {get_sites, ems_portfolio_get_sites}
ConcurrentBearers == {None, S("tokA"), S("tokB")}
ConcurrentUpstream == {TransportFailure, HttpResponse(200, S("application/json"), S("[]"))}

Next ==
    \E i \in Inv :
        \/ Health(i)
        \/ \E d \in ConcurrentTools, b \in ConcurrentBearers :
              \E s \in Inputs(d, 0) : Start(i, d, b, s)
        \/ Enter(i)
        \/ \E r \in ConcurrentUpstream : Respond(i, r)
        \/ Exit(i)
        \/ Cancel(i)
        \/ Finish(i)

Spec == Init /\ [][Next]_vars

-----------------------------------------------------------------------------
(* One invocation of any tool of the catalog with any choice of arguments;   *)
(* the upstream answers as in the concurrent runs                            *)

NextCatalog ==
    \/ Health(1)
    \/ /\ started = 0
       /\ \E d \in Catalog \ {health}, b \in Bearers :
             \E s \in Inputs(d, MaxSupplied) : Start(1, d, b, s)
    \/ Enter(1)
    \/ \E r \in ConcurrentUpstream : Respond(1, r)
    \/ Exit(1)
    \/ Cancel(1)
    \/ Finish(1)

SpecCatalog == Init /\ [][NextCatalog]_vars

-----------------------------------------------------------------------------
(* One caller invoking the tools one after the other, each with the          *)
(* arguments it requires, against every answer of the upstream               *)

NextUpstream ==
    \/ Health(1)
    \/ \E name \in UnknownNames, b \in {None, S("tokA")} : Unknown(1, name, b)
    \/ \E d \in Catalog \ {health}, b \in {None, S(""), S("tokA")} :
          \E s \in Inputs(d, 0) : Start(1, d, b, s)
    \/ Enter(1)
    \/ \E r \in AllUpstream : Respond(1, r)
    \/ Exit(1)
    \/ Cancel(1)
    \/ Finish(1)

SpecUpstream == Init /\ [][NextUpstream]_vars

-----------------------------------------------------------------------------
(* Concurrent invocations of get_sites under a fair scheduler: the event     *)
(* loop resumes a coroutine whose await is over, and the timeout of the      *)
(* client ends every upstream call                                           *)

LiveBearers == {None, S("tokA")}
LiveUpstream ==
    {TransportFailure, HttpResponse(200, S("application/json"), S("[]")),
     HttpResponse(404, S("application/json"), S("<html>oops</html>"))}

NextLive ==
    \E i \in Inv :
        \/ \E b \in LiveBearers : \E s \in Inputs(get_sites, 0) : Start(i, get_sites, b, s)
        \/ Enter(i)
        \/ \E r \in LiveUpstream : Respond(i, r)
        \/ Exit(i)
        \/ Cancel(i)
        \/ Finish(i)

Fairness ==
    \A i \in Inv :
        /\ WF_vars(Enter(i))
        /\ WF_vars(\E r \in LiveUpstream : Respond(i, r))
        /\ WF_vars(Exit(i))

SpecLive == Init /\ [][NextLive]_vars /\ Fairness

-----------------------------------------------------------------------------
(* _prune and _q applied on their own to any dict of at most MaxLen entries  *)

HelperKeys == {"a", "b", "c"}
HelperValues == {None, L(<<>>), L(<<7>>), I(0), I(5), S(""), B(FALSE)}
HelperDicts ==
    {d \in UNION {[1..n -> {KV(k, x) : k \in HelperKeys, x \in HelperValues}] : n \in 0..MaxLen} :
        \A m, n \in 1..Len(d) : m # n => d[m].k # d[n].k}

\* f(d), for the helper named f
Apply(f, d) == IF f = "_prune" THEN _prune(d) ELSE _q(d)

\* `out = {}`, the loop over d.items() and `return out`: d is only read
CallHelper(f, d) ==
    /\ hfn = ""
    /\ hfn' = f
    /\ harg' = d
    /\ hd' = d
    /\ hout' = Apply(f, d)
    /\ UNCHANGED <<pc, call, args, payload, client, req, resp, result, trace, nreq, nrel, started>>
    /\ UNCHANGED conf

\* The caller drops the dicts
ReturnHelper ==
    /\ hfn # ""
    /\ hfn' = "" /\ harg' = <<>> /\ hd' = <<>> /\ hout' = <<>>
    /\ UNCHANGED <<pc, call, args, payload, client, req, resp, result, trace, nreq, nrel, started>>
    /\ UNCHANGED conf

NextHelpers ==
    \/ \E f \in {"_prune", "_q"}, d \in HelperDicts : CallHelper(f, d)
    \/ ReturnHelper

SpecHelpers == Init /\ [][NextHelpers]_vars

-----------------------------------------------------------------------------
(* Vocabulary of the properties *)

\* Invocation i runs a tool that takes a bearer
Proxying(i) == call[i].op \in CatalogNames \ {"health"}
ToolOf(i) == Tool(call[i].op)

\* The keys that leave with the request, in the query string or in the body
OutgoingDict(i) == req[i].params.d \o req[i].json.d \o req[i].data.d
OutgoingKeys(i) == Keys(OutgoingDict(i))

\* The caller's extension map carries key k
ExtraCarries(i, k) ==
    /\ ToolOf(i).extra
    /\ Truthy(args[i]["extra"])
    /\ HasKey(args[i]["extra"].v, k)

\* The caller left parameter p out, or passed None for it
Absent(i, p) == p \notin DOMAIN call[i].supplied \/ IsNone(call[i].supplied[p])

AuthHeaders(i) == SelectSeq(req[i].headers, LAMBDA e : e.k = "Authorization")

StepRank(step) ==
    CASE step = "gate" -> 1
      [] step = "normalize" -> 2
      [] step = "acquire" -> 3
      [] step = "request" -> 4
      [] step = "status" -> 5
      [] step = "transform" -> 6
      [] OTHER -> 7

-----------------------------------------------------------------------------
(* C1 - credential gate *)

\* C1: for every tool but health, an invocation whose bearer is None or ""
\* raises PermissionError, and in it no client was created, no request was
\* issued and no argument was shaped
C1_MissingCredential ==
    \A i \in Inv :
        (Proxying(i) /\ (call[i].bearer = None \/ call[i].bearer = S(""))) =>
            /\ pc[i] = "done"
            /\ result[i] = Raise("PermissionError", 0)
            /\ client[i] = NoClient
            /\ req[i] = NoReq
            /\ nreq[i] = 0
            /\ payload[i] = NoDict
            /\ trace[i] = <<"gate">>

C1_Witness ==
    \E i \in Inv :
        /\ call[i].op = "get_overview_dashboard"
        /\ call[i].bearer = S("")
        /\ DOMAIN call[i].supplied = {"siteIds", "extra"}
        /\ result[i] = Raise("PermissionError", 0)

-----------------------------------------------------------------------------
(* C2 - the client is released exactly once *)

\* C2: once a handler that opened its client has returned or raised (result,
\* HTTP status error, transport error, decode error), the client is closed and
\* was released exactly once; no client is ever released twice, and a client
\* that is still open has not been released
C2_ReleasedOnce ==
    \A i \in Inv :
        /\ nrel[i] <= 1
        /\ client[i].state = "open" => nrel[i] = 0
        /\ (pc[i] = "done" /\ result[i].kind \in {"return", "raise"} /\ nreq[i] > 0) =>
              (client[i].state = "closed" /\ nrel[i] = 1)

C2_Witness ==
    \E i \in Inv :
        /\ pc[i] = "done"
        /\ result[i] = Raise("DecodeError", 0)
        /\ client[i].state = "closed"
        /\ nrel[i] = 1

-----------------------------------------------------------------------------
(* C3 - cancellation *)

\* C3: an invocation cancelled at a suspension point never ends with its client
\* open: cancelled while the upstream call or the close is pending, its client
\* is closed and was released once; cancelled while the client was being
\* opened, it never had an open client
C3_CancelReleases ==
    \A i \in Inv :
        (pc[i] = "done" /\ result[i].kind = "cancelled") =>
            /\ client[i].state # "open"
            /\ nreq[i] > 0 => (client[i].state = "closed" /\ nrel[i] = 1)
            /\ nreq[i] = 0 => (client[i].state = "unopened" /\ nrel[i] = 0)

C3_Witness ==
    \E i \in Inv :
        /\ pc[i] = "done"
        /\ result[i].kind = "cancelled"
        /\ resp[i] = NoResp
        /\ nreq[i] = 1
        /\ client[i].state = "closed"

-----------------------------------------------------------------------------
(* C4 - one request per invocation *)

\* C4: no invocation issues more than one upstream request; an invocation that
\* passed the gate and returned or raised issued exactly one, whatever was
\* invoked before it; health and a gated invocation issue none
C4_OneRequest ==
    \A i \in Inv :
        /\ nreq[i] <= 1
        /\ (Proxying(i) /\ pc[i] = "done" /\ result[i].kind \in {"return", "raise"}
              /\ result[i].error # "PermissionError") => nreq[i] = 1
        /\ (pc[i] = "done" /\ result[i].error = "PermissionError") => nreq[i] = 0
        /\ (Proxying(i) /\ pc[i] \in {"awaiting", "closing"}) => nreq[i] = 1

C4_Witness ==
    \E i \in Inv :
        /\ started >= 2
        /\ pc[i] = "done"
        /\ result[i] = Raise("HTTPStatusError", 500)
        /\ nreq[i] = 1

-----------------------------------------------------------------------------
(* C5 - the bearer of a request *)

\* C5: in every interleaving, a request carries exactly one Authorization
\* header, and it is "Bearer " followed by the bearer of the invocation that
\* issued the request
C5_OwnBearer ==
    \A i \in Inv :
        req[i].sent =>
            AuthHeaders(i) = <<KV("Authorization", S("Bearer " \o call[i].bearer.v))>>

C5_Witness ==
    \E i, j \in Inv :
        /\ i # j
        /\ pc[i] = "awaiting" /\ pc[j] = "awaiting"
        /\ call[i].bearer = S("tokA") /\ call[j].bearer = S("tokB")
        /\ req[i].sent /\ req[j].sent

-----------------------------------------------------------------------------
(* C6 - order of the steps *)

-----------------------------------------------------------------------------
(* C7 - upstream status *)

\* C7: when the upstream answered with a status outside 200..299, the handler
\* never returns a value, and unless it is cancelled while closing it raises
\* the status error that carries exactly that status
C7_StatusError ==
    \A i \in Inv :
        (resp[i].kind = "http" /\ ~(resp[i].status \in 200..299)) =>
            /\ result[i].kind # "return"
            /\ result[i].kind # "cancelled" => result[i] = Raise("HTTPStatusError", resp[i].status)

C7_Witness ==
    \E i \in Inv :
        /\ resp[i].kind = "http"
        /\ resp[i].status = 300
        /\ resp[i].content = S("{\"ok\": true}")
        /\ pc[i] = "done"
        /\ result[i] = Raise("HTTPStatusError", 300)

-----------------------------------------------------------------------------
(* C8 - absent arguments *)

\* C8 as stated: an argument that the caller left out or passed as None has no
\* key in the outgoing query string or body
C8_AbsentNeverSent ==
    \A i \in Inv :
        (Proxying(i) /\ req[i].sent) =>
            \A p \in ParamNames(ToolOf(i)) :
                Absent(i, p) => Param(ToolOf(i), p).wire \notin OutgoingKeys(i)

\* C8 amended: a named argument whose value is None (passed as None, or left
\* out when its declared default is None) contributes no key to the outgoing
\* query string or body: the key is there only when the caller's extension map
\* carries it.  An argument left out whose declared default is not None is
\* sent with that default (also the empty string), unless the extension map
\* overrides the key.
C8_NoneNeverSent ==
    \A i \in Inv :
        (Proxying(i) /\ req[i].sent) =>
            \A p \in ParamNames(ToolOf(i)) :
                LET k == Param(ToolOf(i), p).wire
                IN  /\ (IsNone(args[i][p]) /\ ~ExtraCarries(i, k)) => k \notin OutgoingKeys(i)
                    /\ (p \notin DOMAIN call[i].supplied /\ ~IsNone(Param(ToolOf(i), p).default)
                          /\ ~ExtraCarries(i, k)) =>
                          (k \in OutgoingKeys(i)
                             /\ ValueOf(OutgoingDict(i), k) = Param(ToolOf(i), p).default)

C8_Witness ==
    \E i \in Inv :
        /\ call[i].op = "ems_portfolio_get_electricity_consumption"
        /\ "siteId" \notin DOMAIN call[i].supplied
        /\ "buildingId" \in DOMAIN call[i].supplied
        /\ call[i].supplied["buildingId"] = None
        /\ req[i].sent
        /\ OutgoingKeys(i) = {"startDate", "endDate"}

-----------------------------------------------------------------------------
(* C9 - empty lists *)

\* C9 as stated: for every tool, a list argument passed as the empty list has
\* no key in the outgoing body or query string
C9_EmptyListNeverSent ==
    \A i \in Inv :
        (Proxying(i) /\ req[i].sent) =>
            \A p \in ParamNames(ToolOf(i)) :
                IsEmptyList(args[i][p]) => Param(ToolOf(i), p).wire \notin OutgoingKeys(i)

\* C9 amended: a tool that shapes its arguments with _prune or _q omits a list
\* argument passed as the empty list.  The Dashboard proxy tools, which use
\* _clean_payload, send it as an empty list (unless the extension map
\* overrides the key), and send_solution_data sends its required list as
\* passed, also when it is empty.
C9_EmptyListByHelper ==
    \A i \in Inv :
        (Proxying(i) /\ req[i].sent) =>
            \A p \in ParamNames(ToolOf(i)) :
                LET k == Param(ToolOf(i), p).wire
                IN  IsEmptyList(args[i][p]) =>
                      /\ ToolOf(i).build \in {"prune", "q"} => k \notin OutgoingKeys(i)
                      /\ (ToolOf(i).build \in {"clean", "raw"} /\ ~ExtraCarries(i, k)) =>
                            (k \in OutgoingKeys(i) /\ ValueOf(OutgoingDict(i), k) = L(<<>>))

C9_Witness ==
    \E i \in Inv :
        /\ call[i].op = "get_asset_types"
        /\ "assetSystemIds" \in DOMAIN call[i].supplied
        /\ call[i].supplied["assetSystemIds"] = L(<<>>)
        /\ req[i].sent
        /\ OutgoingKeys(i) = {"pageNo", "pageSize"}

-----------------------------------------------------------------------------
(* C10 - pagination *)

Paginated(d) == {"pageNo", "pageSize"} \subseteq ParamNames(d)

\* C10: every request of a paginated tool carries pageNo and pageSize in its
\* JSON body, each with the value the caller passed (as the argument, or in
\* the extension map, which wins) or else with the declared default 1 and 20
C10_PaginationSent ==
    \A i \in Inv :
        (Proxying(i) /\ req[i].sent /\ Paginated(ToolOf(i))) =>
            /\ req[i].json.present
            /\ \A p \in {"pageNo", "pageSize"} :
                  /\ HasKey(req[i].json.d, p)
                  /\ ValueOf(req[i].json.d, p) =
                        IF ExtraCarries(i, p) THEN ValueOf(args[i]["extra"].v, p)
                        ELSE IF p \in DOMAIN call[i].supplied THEN call[i].supplied[p]
                        ELSE IF p = "pageNo" THEN I(1) ELSE I(20)

C10_Witness ==
    \E i \in Inv :
        /\ call[i].op = "get_overview_dashboard"
        /\ DOMAIN call[i].supplied = {"pageNo", "pageSize"}
        /\ call[i].supplied["pageNo"] = I(1)
        /\ call[i].supplied["pageSize"] = I(20)
        /\ req[i].sent
        /\ req[i].json.d = <<KV("pageNo", I(1)), KV("pageSize", I(20))>>

-----------------------------------------------------------------------------
(* C11 - the extension map *)

\* Two Python values are equal: same type and same content
Same(x, y) == x.t = y.t /\ x.v = y.v

\* The extension map that `if extra:` lets through
Extension(i) == IF Truthy(args[i]["extra"]) THEN args[i]["extra"].v ELSE <<>>

\* C11: for a tool with an extension map, the JSON body holds every key of the
\* extension with the extension's value (also a key that a named parameter
\* set), every named parameter outside the extension with its own value unless
\* that value is None, and no other key
C11_ExtensionOverrides ==
    \A i \in Inv :
        (Proxying(i) /\ req[i].sent /\ ToolOf(i).extra) =>
            LET body == req[i].json.d
                ext == Extension(i)
                named == {Param(ToolOf(i), p).wire : p \in ParamNames(ToolOf(i))}
            IN  /\ req[i].json.present
                /\ \A k \in Keys(ext) : HasKey(body, k) /\ Same(ValueOf(body, k), ValueOf(ext, k))
                /\ \A p \in ParamNames(ToolOf(i)) :
                      LET k == Param(ToolOf(i), p).wire
                      IN  k \notin Keys(ext) =>
                            IF IsNone(args[i][p]) THEN ~HasKey(body, k)
                            ELSE HasKey(body, k) /\ Same(ValueOf(body, k), args[i][p])
                /\ Keys(body) \subseteq (named \cup Keys(ext))

C11_Witness ==
    \E i \in Inv :
        /\ call[i].op = "get_overview_dashboard"
        /\ DOMAIN call[i].supplied = {"pageNo", "extra"}
        /\ call[i].supplied["pageNo"] = I(3)
        /\ req[i].sent
        /\ req[i].json.d = <<KV("pageNo", I(9)), KV("pageSize", I(20)), KV("zone", S("z"))>>

-----------------------------------------------------------------------------
(* C12 - wire names *)

\* C12: a parameter whose key on the wire differs from its Python name is never
\* sent under the Python name.  ems_ecm_get_high_apparent_or_active_power sends
\* a meterId that is not None under `meterid` and never sends `meterId`;
\* ems_ecm_load_imbalance_forecasting and ems_ecm_get_thermal_loss_detection
\* send the building under `building` and never send `buildingName`
C12_WireName ==
    \A i \in Inv :
        (Proxying(i) /\ req[i].sent) =>
            /\ \A p \in ParamNames(ToolOf(i)) :
                  Param(ToolOf(i), p).wire # p => p \notin OutgoingKeys(i)
            /\ call[i].op = "ems_ecm_get_high_apparent_or_active_power" =>
                  /\ req[i].params.present
                  /\ "meterId" \notin Keys(req[i].params.d)
                  /\ ~IsNone(args[i]["meterId"]) =>
                        /\ HasKey(req[i].params.d, "meterid")
                        /\ Same(ValueOf(req[i].params.d, "meterid"), args[i]["meterId"])
            /\ call[i].op \in {"ems_ecm_load_imbalance_forecasting",
                               "ems_ecm_get_thermal_loss_detection"} =>
                  /\ req[i].params.present
                  /\ "buildingName" \notin Keys(req[i].params.d)
                  /\ HasKey(req[i].params.d, "building")
                  /\ Same(ValueOf(req[i].params.d, "building"), args[i]["building"])

C12_Witness ==
    \E i \in Inv :
        /\ call[i].op = "ems_ecm_get_high_apparent_or_active_power"
        /\ "meterId" \in DOMAIN call[i].supplied
        /\ call[i].supplied["meterId"] = I(5)
        /\ req[i].sent
        /\ Keys(req[i].params.d) = {"buildingName", "startDate", "endDate", "meterid"}
        /\ ValueOf(req[i].params.d, "meterid") = I(5)

-----------------------------------------------------------------------------
(* C13 - the JSON result *)

JsonKind(i) == Proxying(i) /\ ToolOf(i).kind = "json"
Answered2xx(i) == resp[i].kind = "http" /\ resp[i].status \in 200..299

\* C13: when the upstream answered 2xx with a body that is JSON, a json-kind
\* tool returns the parsed value of that body and nothing else (object, array,
\* number, string or null), unless the invocation is cancelled while closing
C13_JsonPassThrough ==
    \A i \in Inv :
        (JsonKind(i) /\ Answered2xx(i) /\ json_ok(resp[i].content)
           /\ result[i].kind # "cancelled") =>
            /\ result[i].kind = "return"
            /\ result[i] = Return(json_value(resp[i].content))

C13_Witness ==
    \E i \in Inv :
        /\ JsonKind(i)
        /\ pc[i] = "done"
        /\ resp[i].content = S("{\"b\": 1, \"a\": [2, null]}")
        /\ result[i].kind = "return"
        /\ result[i].value = D(<<KV("b", I(1)), KV("a", L(<<I(2), None>>))>>)

-----------------------------------------------------------------------------
(* C14 - a 2xx body that is no JSON *)

\* C14: when the upstream answered 2xx with a body that is not JSON, a
\* json-kind tool returns no value: it raises the decode error (unless it is
\* cancelled while closing), and when it is over its client is closed and was
\* released once
C14_DecodeError ==
    \A i \in Inv :
        (JsonKind(i) /\ Answered2xx(i) /\ ~json_ok(resp[i].content)) =>
            /\ result[i].kind # "return"
            /\ result[i].kind # "cancelled" => result[i] = Raise("DecodeError", 0)
            /\ pc[i] = "done" => (client[i].state = "closed" /\ nrel[i] = 1)

C14_Witness ==
    \E i \in Inv :
        /\ JsonKind(i)
        /\ resp[i] = HttpResponse(299, S("application/json"), S(""))
        /\ pc[i] = "done"
        /\ result[i] = Raise("DecodeError", 0)
        /\ client[i].state = "closed"

-----------------------------------------------------------------------------
(* C15 - the binary result *)

\* base64.b64decode of a sequence of characters: the bytes, or <<-1>> when a
\* character is outside the alphabet
B64Index(c) ==
    IF \E n \in 1..64 : B64Alphabet[n] = c
    THEN (CHOOSE n \in 1..64 : B64Alphabet[n] = c) - 1
    ELSE -1
RECURSIVE b64decode(_)
b64decode(cs) ==
    IF Len(cs) = 0 THEN <<>>
    ELSE IF Len(cs) < 4 THEN <<-1>>
    ELSE LET a == B64Index(cs[1])
             b == B64Index(cs[2])
             c == B64Index(cs[3])
             d == B64Index(cs[4])
         IN  IF a < 0 \/ b < 0 THEN <<-1>>
             ELSE IF cs[3] = "=" /\ cs[4] = "=" /\ Len(cs) = 4 THEN <<a * 4 + b \div 16>>
             ELSE IF c < 0 THEN <<-1>>
             ELSE IF cs[4] = "=" /\ Len(cs) = 4
                  THEN <<a * 4 + b \div 16, (b % 16) * 16 + c \div 4>>
             ELSE IF d < 0 THEN <<-1>>
             ELSE <<a * 4 + b \div 16, (b % 16) * 16 + c \div 4, (c % 4) * 64 + d>>
                  \o b64decode(SubSeq(cs, 5, Len(cs)))

\* C15: on a 2xx answer get_icon_image returns a dict of exactly the keys
\* content_type and base64; base64 decodes to the bytes of the response,
\* content_type is the content-type header of the response, or
\* application/octet-stream when the response has none; the bytes are never
\* parsed as JSON, so there is no decode error
C15_BinaryResult ==
    \A i \in Inv :
        (call[i].op = "get_icon_image" /\ Answered2xx(i) /\ result[i].kind # "cancelled") =>
            /\ result[i].kind = "return"
            /\ result[i].value.t = "dict"
            /\ Len(result[i].value.v) = 2
            /\ Keys(result[i].value.v) = {"content_type", "base64"}
            /\ b64decode(ValueOf(result[i].value.v, "base64").v) = resp[i].content.v
            /\ ValueOf(result[i].value.v, "content_type") =
                  IF IsNone(resp[i].ctype) THEN S("application/octet-stream") ELSE resp[i].ctype

C15_Witness ==
    \E i \in Inv :
        /\ call[i].op = "get_icon_image"
        /\ pc[i] = "done"
        /\ resp[i] = HttpResponse(200, None, Bytes(<<255, 255, 255>>))
        /\ result[i].kind = "return"
        /\ ValueOf(result[i].value.v, "base64").v = <<"/", "/", "/", "/">>
        /\ ValueOf(result[i].value.v, "content_type") = S("application/octet-stream")

-----------------------------------------------------------------------------
(* C16 - address and headers of a request *)

\* C16: a request of a Data API tool goes to DATA_API_BASE and carries the one
\* header Authorization: Bearer <bearer>; a request of an EMS tool goes to
\* EMS_API_BASE and carries that Authorization header and a Referer header
\* whose value is the same literal for every caller, bearer and argument
C16_BackendHeaders ==
    \A i \in Inv :
        (Proxying(i) /\ req[i].sent) =>
            LET auth == KV("Authorization", S("Bearer " \o call[i].bearer.v))
            IN  IF ToolOf(i).backend = "data"
                THEN /\ req[i].base_url = DATA_API_BASE
                     /\ req[i].headers = <<auth>>
                ELSE /\ req[i].base_url = EMS_API_BASE
                     /\ Len(req[i].headers) = 2
                     /\ Keys(req[i].headers) = {"Authorization", "Referer"}
                     /\ ValueOf(req[i].headers, "Authorization") = auth.v
                     /\ ValueOf(req[i].headers, "Referer") =
                           S("https://energy.machinesensiot.com/Portfolio/Index?org_id=83&user_id=14")

C16_Witness ==
    \E i \in Inv :
        /\ call[i].op = "ems_water_usage_get_water_stats"
        /\ call[i].bearer = S("tokB")
        /\ req[i].sent
        /\ req[i].base_url = "http://ems.local:8080"
        /\ ValueOf(req[i].headers, "Referer") = S(EMS_REFERER)

-----------------------------------------------------------------------------
(* C17 - health *)

\* C17: health needs no bearer: it returns {ok: True, api_base: DATA_API_BASE},
\* the address every Data API client in flight is bound to, without a gate
\* step, a client or a request
C17_Health ==
    \A i \in Inv :
        call[i].op = "health" =>
            /\ call[i].bearer = None
            /\ pc[i] = "done"
            /\ result[i] = Return(D(<<KV("ok", B(TRUE)), KV("api_base", S(DATA_API_BASE))>>))
            /\ trace[i] = <<>>
            /\ client[i] = NoClient
            /\ req[i] = NoReq
            /\ nreq[i] = 0
            /\ \A j \in Inv :
                  (Proxying(j) /\ ToolOf(j).backend = "data" /\ client[j].state # "none") =>
                      S(client[j].base_url) = ValueOf(result[i].value.v, "api_base")

C17_Witness ==
    \E i, j \in Inv :
        /\ call[i].op = "health"
        /\ result[i].kind = "return"
        /\ call[j].op = "get_sites"
        /\ client[j].state = "open"
        /\ client[j].base_url = "http://data.local:8080"

-----------------------------------------------------------------------------
(* C18 - transport failures *)

\* C18: when the upstream call failed with a timeout or a network error, the
\* handler returns no value: it raises the transport error (unless it is
\* cancelled while closing), it has issued one request only, and when it is
\* over its client is closed and was released once
C18_TransportError ==
    \A i \in Inv :
        resp[i].kind = "transport" =>
            /\ result[i].kind # "return"
            /\ result[i].kind # "cancelled" => result[i] = Raise("TransportError", 0)
            /\ nreq[i] = 1
            /\ pc[i] = "done" => (client[i].state = "closed" /\ nrel[i] = 1)

C18_Witness ==
    \E i \in Inv :
        /\ resp[i] = TransportFailure
        /\ pc[i] = "done"
        /\ result[i] = Raise("TransportError", 0)
        /\ nreq[i] = 1
        /\ client[i].state = "closed"

-----------------------------------------------------------------------------
(* C19 - concurrent invocations *)

\* Everything the model holds about invocation i
Slot(i) ==
    <<pc[i], call[i], args[i], payload[i], client[i], req[i], resp[i], result[i], trace[i],
      nreq[i], nrel[i]>>

\* The request invocation i issues, computed from its own call alone
OwnRequest(i) ==
    LET d == ToolOf(i)
        a == Bind(d, call[i].supplied)
        c == [NewClient(d, call[i].bearer) EXCEPT !.state = "open"]
    IN  Request(d, c, IF d.build = "none" THEN <<>> ELSE Shape(d, a))

\* C19: an invocation that passed the gate can always issue its request,
\* whatever the other invocations are doing; its request is determined by its
\* own call and its outcome by its own response; and no step of the server
\* changes anything of more than one invocation
C19_Independent ==
    /\ [](\A i \in Inv :
            /\ pc[i] = "opening" => ENABLED Enter(i)
            /\ (Proxying(i) /\ req[i].sent) => req[i] = OwnRequest(i)
            /\ (Proxying(i) /\ resp[i].kind # "none" /\ result[i].kind # "cancelled") =>
                  result[i] = Settle(ToolOf(i), resp[i]))
    /\ [][\E i \in Inv : \A j \in Inv \ {i} : Slot(j)' = Slot(j)]_vars

C19_Witness ==
    \E i, j \in Inv :
        /\ i # j
        /\ call[i].op = "get_sites" /\ call[j].op = "get_sites"
        /\ call[i].bearer = call[j].bearer
        /\ nreq[i] = 1 /\ nreq[j] = 1
        /\ result[i].kind = "return"
        /\ result[j].kind = "cancelled"

-----------------------------------------------------------------------------
(* C20 - the backend configuration *)

\* C20: DATA_API_BASE and EMS_API_BASE never change after the module was
\* imported, and every client, whatever the tool, the arguments, the extension
\* map and the bearer, is bound to the base address of its backend with timeout
\* 30 s, connect timeout 10 s, HTTP/2 on, certificate verification off and the
\* header names of its backend
C20_FixedConfig ==
    /\ [](\A i \in Inv :
            client[i].state # "none" =>
                /\ client[i].base_url =
                      (IF ToolOf(i).backend = "ems" THEN EMS_API_BASE ELSE DATA_API_BASE)
                /\ client[i].timeout = 30
                /\ client[i].connect = 10
                /\ client[i].http2 = TRUE
                /\ client[i].verify = FALSE
                /\ Keys(client[i].headers) =
                      (IF ToolOf(i).backend = "ems" THEN {"Authorization", "Referer"}
                       ELSE {"Authorization"}))
    /\ [][DATA_API_BASE' = DATA_API_BASE /\ EMS_API_BASE' = EMS_API_BASE]_vars

C20_Witness ==
    \E i \in Inv :
        /\ call[i].op = "get_icon_image"
        /\ call[i].bearer = S("tokB")
        /\ client[i].state = "closed"
        /\ client[i].base_url = "http://data.local:8080"
        /\ client[i].timeout = 30

-----------------------------------------------------------------------------
(* C21 - POST with a query string and an empty body *)

\* How a request carries its arguments: method, query string, JSON body, form body
Carriage(i) == <<req[i].method, req[i].params.present, req[i].json.present, req[i].data.present>>

\* C21: get_unit_price_by_location issues a POST whose query string holds
\* locationId and utilityType with the values passed and whose JSON body is the
\* empty object, so neither parameter is in the body; no other tool issues a
\* request of this shape (a POST with a JSON body has no query string, a GET
\* with a query string has no body)
C21_QueryAndEmptyBody ==
    \A i \in Inv :
        (Proxying(i) /\ req[i].sent) =>
            IF call[i].op = "get_unit_price_by_location"
            THEN /\ Carriage(i) = <<"POST", TRUE, TRUE, FALSE>>
                 /\ req[i].path = "/api/UnitPrice/GetUnitPriceByLocation"
                 /\ req[i].params.d = <<KV("locationId", args[i]["locationId"]),
                                        KV("utilityType", args[i]["utilityType"])>>
                 /\ req[i].json.d = <<>>
            ELSE /\ Carriage(i) # <<"POST", TRUE, TRUE, FALSE>>
                 /\ req[i].json.present => ~req[i].params.present
                 /\ req[i].method = "GET" => (~req[i].json.present /\ ~req[i].data.present)

C21_Witness ==
    \E i \in Inv :
        /\ call[i].op = "get_unit_price_by_location"
        /\ req[i].sent
        /\ req[i].method = "POST"
        /\ req[i].params.d = <<KV("locationId", I(5)), KV("utilityType", I(0))>>
        /\ req[i].json = Some(<<>>)

-----------------------------------------------------------------------------
(* C22 - the shape of the EMS requests *)

\* dict holds the arguments of invocation i as the helpers leave them: every
\* argument that is neither None nor an empty list under its key, nothing else
Normalized(i, dict) ==
    /\ Keys(dict) \subseteq {Param(ToolOf(i), p).wire : p \in ParamNames(ToolOf(i))}
    /\ \A p \in ParamNames(ToolOf(i)) :
          LET k == Param(ToolOf(i), p).wire
          IN  IF IsNone(args[i][p]) \/ IsEmptyList(args[i][p]) THEN ~HasKey(dict, k)
              ELSE HasKey(dict, k) /\ Same(ValueOf(dict, k), args[i][p])

\* C22: every EMS tool issues a GET with its shaped arguments in the query
\* string (no query string when the tool has no parameter) and no body, but
\* ems_benchmarking_get_site_level_energy_and_carbon_intensity, which issues a
\* POST with its shaped arguments as the form body and no query string
C22_EmsGetButOne ==
    \A i \in Inv :
        (Proxying(i) /\ req[i].sent /\ ToolOf(i).backend = "ems") =>
            IF call[i].op = "ems_benchmarking_get_site_level_energy_and_carbon_intensity"
            THEN /\ Carriage(i) = <<"POST", FALSE, FALSE, TRUE>>
                 /\ Normalized(i, req[i].data.d)
            ELSE /\ Carriage(i) = <<"GET", ParamNames(ToolOf(i)) # {}, FALSE, FALSE>>
                 /\ Normalized(i, req[i].params.d)

C22_Witness ==
    \E i \in Inv :
        /\ call[i].op = "ems_benchmarking_get_site_level_energy_and_carbon_intensity"
        /\ "sites" \in DOMAIN call[i].supplied
        /\ call[i].supplied["sites"] = S("x")
        /\ req[i].sent
        /\ req[i].method = "POST"
        /\ Keys(req[i].data.d) = {"sites", "startDate", "endDate"}
        /\ ~req[i].params.present

-----------------------------------------------------------------------------
(* C23 - where the bearer goes *)

\* Value x is the bearer b, or the header value made from it
RECURSIVE Mentions(_, _)
Mentions(x, b) ==
    CASE x.t = "str" -> x.v = b.v \/ x.v = "Bearer " \o b.v
      [] x.t = "dict" -> \E n \in 1..Len(x.v) : x.v[n].k = b.v \/ Mentions(x.v[n].v, b)
      [] OTHER -> FALSE

\* C23: the bearer of an invocation is in the Authorization header of its own
\* client and request and nowhere else: not in the query string or body, not
\* in the address or path, not in the value the invocation or health returns,
\* not in the client or request of an invocation with another bearer and not
\* in the module globals; once the invocation is over nothing of it is kept;
\* and two invocations of the same tool with the same arguments send the same
\* query string and body and turn the same response into the same outcome
\* whatever their bearers
C23_BearerOnlyInHeader ==
    /\ \A i \in Inv :
          pc[i] = "idle" =>
              /\ call[i] = NoCall /\ args[i] = <<>> /\ payload[i] = NoDict
              /\ client[i] = NoClient /\ req[i] = NoReq /\ result[i] = NoResult
    /\ \A i \in Inv :
          Truthy(call[i].bearer) =>
              LET b == call[i].bearer
              IN  /\ ~Mentions(D(OutgoingDict(i)), b)
                  /\ ~Mentions(D(payload[i].d), b)
                  /\ ~Mentions(result[i].value, b)
                  /\ req[i].path # b.v /\ req[i].base_url # b.v
                  /\ DATA_API_BASE # b.v /\ EMS_API_BASE # b.v
                  /\ \A n \in 1..Len(req[i].headers) :
                        Mentions(req[i].headers[n].v, b) => req[i].headers[n].k = "Authorization"
                  /\ \A j \in Inv :
                        call[j].bearer # b =>
                            /\ ~Mentions(D(client[j].headers), b)
                            /\ ~Mentions(D(req[j].headers), b)
                            /\ ~Mentions(result[j].value, b)
    /\ \A i, j \in Inv :
          (Proxying(i) /\ Proxying(j) /\ call[i].op = call[j].op
             /\ call[i].supplied = call[j].supplied) =>
              /\ (req[i].sent /\ req[j].sent) =>
                    /\ OutgoingDict(i) = OutgoingDict(j)
                    /\ req[i].path = req[j].path
              /\ (resp[i].kind # "none" /\ resp[i] = resp[j]
                    /\ result[i].kind # "cancelled" /\ result[j].kind # "cancelled") =>
                    result[i] = result[j]

C23_Witness ==
    \E i, j \in Inv :
        /\ call[i].op = "get_sites" /\ call[j].op = "get_sites"
        /\ call[i].bearer = S("tokA") /\ call[j].bearer = S("tokB")
        /\ pc[i] = "done" /\ pc[j] = "done"
        /\ result[i].kind = "return" /\ result[j].kind = "return"
        /\ ValueOf(req[i].headers, "Authorization") = S("Bearer tokA")
        /\ ValueOf(req[j].headers, "Authorization") = S("Bearer tokB")

-----------------------------------------------------------------------------
(* C24 - a name that is not in the catalog *)

\* C24: a call of a name that no tool is registered under fails with the
\* unknown-operation error, whatever its bearer (also with none): no gate step
\* ran, no client was created and no request was issued
C24_UnknownOperation ==
    \A i \in Inv :
        (call[i].op # "" /\ call[i].op \notin CatalogNames) =>
            /\ pc[i] = "done"
            /\ result[i] = Raise("UnknownOperationError", 0)
            /\ trace[i] = <<>>
            /\ client[i] = NoClient
            /\ req[i] = NoReq
            /\ nreq[i] = 0

C24_Witness ==
    \E i \in Inv :
        /\ call[i].op = "get_site"
        /\ call[i].bearer = None
        /\ pc[i] = "done"
        /\ result[i] = Raise("UnknownOperationError", 0)

-----------------------------------------------------------------------------
(* C25 - _prune and _q *)

\* Two dicts have the same entries in the same order
SameDict(x, y) ==
    /\ Len(x) = Len(y)
    /\ \A n \in 1..Len(x) : x[n].k = y[n].k /\ Same(x[n].v, y[n].v)

\* C25: for every dict, _prune and _q return the same dict; it holds exactly
\* the entries of the input whose value is neither None nor an empty list,
\* each with its value, in the order of the input; the input dict is left as
\* it was; and the helper applied to its result returns that result
C25_PruneEqualsQ ==
    hfn # "" =>
        /\ SameDict(_prune(harg), _q(harg))
        /\ SameDict(hout, _prune(harg)) /\ SameDict(hout, _q(harg))
        /\ \A n \in 1..Len(hout) :
              /\ ~IsNone(hout[n].v) /\ ~IsEmptyList(hout[n].v)
              /\ \E m \in 1..Len(harg) : harg[m].k = hout[n].k /\ Same(harg[m].v, hout[n].v)
        /\ \A m \in 1..Len(harg) :
              (~IsNone(harg[m].v) /\ ~IsEmptyList(harg[m].v)) => HasKey(hout, harg[m].k)
        /\ \A m, n \in 1..Len(hout) : m < n => Get(harg, hout[m].k) < Get(harg, hout[n].k)
        /\ SameDict(hd, harg)
        /\ SameDict(Apply(hfn, hout), hout)

C25_Witness ==
    /\ hfn = "_q"
    /\ harg = <<KV("b", None), KV("a", I(0))>>
    /\ hd = harg
    /\ hout = <<KV("a", I(0))>>

-----------------------------------------------------------------------------
(* C26 - the status check comes before decoding *)

\* The positions of a step in the steps invocation i has executed
StepAt(i, step) == {n \in 1..Len(trace[i]) : trace[i][n] = step}

\* C26: once the upstream has answered, the status check has run, and the
\* body is decoded only after it; when the status is outside 200..299 the body
\* is never decoded, the outcome is never a decode error and never a result,
\* and a raised error is the status error with that status, whether the body
\* is JSON or not
C26_StatusBeforeDecoding ==
    \A i \in Inv :
        resp[i].kind = "http" =>
            /\ StepAt(i, "status") # {}
            /\ \A m \in StepAt(i, "status"), n \in StepAt(i, "transform") : m < n
            /\ ~Answered2xx(i) =>
                  /\ StepAt(i, "transform") = {}
                  /\ result[i].kind # "return"
                  /\ result[i].error # "DecodeError"
                  /\ result[i].kind = "raise" => result[i] = Raise("HTTPStatusError", resp[i].status)

C26_Witness ==
    \E i \in Inv :
        /\ call[i].op = "get_sites"
        /\ resp[i] = HttpResponse(404, S("application/json"), S("<html>oops</html>"))
        /\ pc[i] = "done"
        /\ result[i] = Raise("HTTPStatusError", 404)
        /\ trace[i] = <<"gate", "normalize", "acquire", "request", "status", "release">>

-----------------------------------------------------------------------------
(* C27 - falsy scalars are sent *)

\* A Python int, str or bool
IsScalar(x) == x.t \in {I(0).t, S("").t, B(FALSE).t}

\* C27: a named argument that is an int, a str or a bool - also 0, False and
\* the empty string, passed by the caller or taken from the declared default -
\* has its key in the outgoing query string or body, with that value unless
\* the extension map sets the key; and a named argument that has no key in the
\* outgoing request is None or an empty list
C27_FalsySent ==
    \A i \in Inv :
        (Proxying(i) /\ req[i].sent) =>
            \A p \in ParamNames(ToolOf(i)) :
                LET k == Param(ToolOf(i), p).wire
                IN  /\ IsScalar(args[i][p]) =>
                          /\ HasKey(OutgoingDict(i), k)
                          /\ ~ExtraCarries(i, k) => Same(ValueOf(OutgoingDict(i), k), args[i][p])
                    /\ ~HasKey(OutgoingDict(i), k) => (IsNone(args[i][p]) \/ IsEmptyList(args[i][p]))

C27_Witness ==
    \E i \in Inv :
        /\ call[i].op = "ems_portfolio_get_water_consumption"
        /\ DOMAIN call[i].supplied = {"startDate", "endDate", "siteId"}
        /\ call[i].supplied["startDate"] = S("")
        /\ call[i].supplied["siteId"] = I(0)
        /\ req[i].sent
        /\ req[i].params.d = <<KV("startDate", S("")), KV("endDate", S("2024-01-01")),
                               KV("siteId", I(0)), KV("buildingId", I(0)), KV("isGallon", B(FALSE))>>

-----------------------------------------------------------------------------
(* C28 - the extension map is merged as it is *)

\* The request invocation i would issue had the caller passed no extension map
WithoutExtension(i) ==
    LET d == ToolOf(i)
        named == [p \in DOMAIN call[i].supplied \ {"extra"} |-> call[i].supplied[p]]
        c == [NewClient(d, call[i].bearer) EXCEPT !.state = "open"]
    IN  Request(d, c, Shape(d, Bind(d, named)))

\* C28: for a tool with an extension map, every key of the extension is in the
\* JSON body with the extension's value, also when that value is None or an
\* empty list; the keys the extension does not set are those of the body
\* without extension, with the same values; an absent or empty extension
\* leaves the request as it is without; and with any extension the method,
\* path, query string, form body and headers are those of the request without
C28_ExtensionAsIs ==
    \A i \in Inv :
        (Proxying(i) /\ req[i].sent /\ ToolOf(i).extra) =>
            LET body == req[i].json.d
                ext == Extension(i)
                plain == WithoutExtension(i)
            IN  /\ \A k \in Keys(ext) : HasKey(body, k) /\ Same(ValueOf(body, k), ValueOf(ext, k))
                /\ Keys(body) = Keys(plain.json.d) \cup Keys(ext)
                /\ \A k \in Keys(plain.json.d) \ Keys(ext) :
                      Same(ValueOf(body, k), ValueOf(plain.json.d, k))
                /\ ext = <<>> => req[i] = plain
                /\ req[i].method = plain.method /\ req[i].path = plain.path
                /\ req[i].base_url = plain.base_url /\ req[i].headers = plain.headers
                /\ req[i].params = plain.params /\ req[i].data = plain.data
                /\ req[i].json.present = plain.json.present

C28_Witness ==
    \E i \in Inv :
        /\ call[i].op = "get_overview_dashboard"
        /\ DOMAIN call[i].supplied = {"extra"}
        /\ call[i].supplied["extra"] = D(<<KV("siteIds", None)>>)
        /\ req[i].sent
        /\ req[i].method = "POST" /\ ~req[i].params.present
        /\ req[i].json.d = <<KV("pageNo", I(1)), KV("pageSize", I(20)), KV("siteIds", None)>>

-----------------------------------------------------------------------------
(* C29 - open clients *)

OpenClients == {i \in Inv : client[i].state = "open"}

\* The invocations whose `async with` has entered and has not yet exited
BetweenAcquireAndRelease == {i \in Inv : pc[i] \in {"awaiting", "closing"}}

\* C29: in every reachable state the invocations with an open client are
\* those between acquisition and release of their client, so the two numbers
\* are equal; an invocation that the gate rejected has no client at all; and
\* when no invocation is in flight no client is open
C29_OpenClients ==
    /\ OpenClients = BetweenAcquireAndRelease
    /\ Cardinality(OpenClients) = Cardinality(BetweenAcquireAndRelease)
    /\ \A i \in Inv : result[i] = Raise("PermissionError", 0) => client[i] = NoClient
    /\ (\A i \in Inv : pc[i] \in {"idle", "done"}) => OpenClients = {}

C29_Witness ==
    /\ pc[1] = "awaiting" /\ pc[2] = "done"
    /\ result[2] = Raise("PermissionError", 0)
    /\ client[1].state = "open" /\ client[2] = NoClient
    /\ Cardinality(OpenClients) = 1

-----------------------------------------------------------------------------
(* C30 - termination *)

\* How far an invocation has come
PcRank(p) ==
    CASE p = "idle" -> 0
      [] p = "opening" -> 1
      [] p = "awaiting" -> 2
      [] p = "closing" -> 3
      [] OTHER -> 4

InFlight(i) == pc[i] \in {"opening", "awaiting", "closing"}

\* C30: provided every upstream call ends (with a response, a transport error
\* or a timeout) and the event loop resumes the handler, every started
\* invocation reaches its end; there it has one outcome - a value, one error
\* or the cancellation - which no longer changes, and its client is not open
\* (closed and released once if it was ever opened); and no step takes an
\* invocation back to an earlier position or repeats one
C30_Terminates ==
    /\ \A i \in Inv : InFlight(i) ~> (pc[i] = "done")
    /\ [](\A i \in Inv :
            pc[i] = "done" =>
                /\ result[i].kind \in {"return", "raise", "cancelled"}
                /\ client[i].state # "open"
                /\ nreq[i] > 0 => (client[i].state = "closed" /\ nrel[i] = 1))
    /\ [][\A i \in Inv :
            /\ pc'[i] # pc[i] =>
                  (PcRank(pc'[i]) > PcRank(pc[i]) \/ (pc[i] = "done" /\ pc'[i] = "idle"))
            /\ (pc[i] = "done" /\ pc'[i] = "done") => result'[i] = result[i]
            /\ InFlight(i) => nreq'[i] >= nreq[i]]_vars

C30_Witness ==
    /\ pc[1] = "done" /\ pc[2] = "done"
    /\ result[1] = Raise("TransportError", 0)
    /\ result[2].kind = "cancelled"
    /\ client[1].state = "closed" /\ nrel[1] = 1
    /\ client[2].state = "closed" /\ nrel[2] = 1

====
